---- MODULE Spec2Model ----
(***************************************************************************)
(* Model of packages/core/core/src/Graph.js (class Graph) and of           *)
(* packages/core/core/src/assetUtils.js (createAsset, generateFromAST,     *)
(* getInvalidationId, getInvalidationHash).                                *)
(*                                                                         *)
(* this.nodes is a Map<NodeId, Node>; it is modelled as a function from    *)
(* the ids present to the node's value.  this.edges is a Set<Edge> of      *)
(* edge OBJECTS: membership and delete() go by object identity, and        *)
(* iteration goes in insertion order over the live set.  An edge object    *)
(* is therefore a record [id, from, to], where id is the object's          *)
(* identity; between calls the variable `edges` holds the (from,to) pairs  *)
(* in insertion order and the position is the identity.                    *)
(***************************************************************************)
EXTENDS Integers, Sequences, FiniteSets, TLC

\* generateResults is the WeakMap of assetUtils.js, from asset values to
\* promises; promises holds the promises _generateFromAST has returned, a
\* promise being named by its place in it
VARIABLES nodes, edges, rootNodeId, call, generateResults, promises

vars == <<nodes, edges, rootNodeId, call, generateResults, promises>>

(***************************************************************************)
(* Bounds and input sets                                                   *)
(***************************************************************************)
NodeIds == {"root", "a", "b", "c"}

\* largest edge set a caller adds to, with every method in use
MaxEdges == 2

\* largest edge set a caller adds to, with the removing methods in use
MaxEdgesRemove == 3

\* longest toNodes array handed to replaceNodesConnectedTo
MaxToNodes == 2

\* value of a node object handed to addNode, setRootNode, merge, replaceNode
OldValue == "v1"

\* value of a node object handed to replaceNodesConnectedTo
NewValue == "v2"

\* the ids of the fromNode, and of the toNodes, handed to replaceNodesConnectedTo
FromIds == {"root", "a"}

ToIdSet == {"a", "b", "c"}

Null == "null"

\* the (from,to) pairs callers hand to addEdge and merge
EdgePairs ==
  { <<"root", "a">>, <<"root", "b">>, <<"a", "b">>, <<"b", "c">>,
    <<"a", "root">>, <<"a", "a">> }

(***************************************************************************)
(* Maps and sets of objects                                                *)
(***************************************************************************)
EmptyMap == [x \in {} |-> OldValue]

\* Map.prototype.set
MapSet(m, k, v) == [x \in (DOMAIN m) \cup {k} |-> IF x = k THEN v ELSE m[x]]

\* Map.prototype.delete
MapDelete(m, k) == [x \in (DOMAIN m) \ {k} |-> m[x]]

RECURSIVE SeqFilter(_, _)
\* the entries of s whose object identity is not in ids, order kept
SeqFilter(s, ids) ==
  IF s = <<>> THEN <<>>
  ELSE IF Head(s).id \in ids THEN SeqFilter(Tail(s), ids)
       ELSE <<Head(s)>> \o SeqFilter(Tail(s), ids)

Ids(s) == {s[i].id : i \in 1..Len(s)}

Pairs(s) == {<<s[i].from, s[i].to>> : i \in 1..Len(s)}

Objs(s) == {s[i] : i \in 1..Len(s)}

RECURSIVE Tag(_, _)
\* edge objects for the pairs of s, identities k+1, k+2, ...
Tag(s, k) ==
  IF s = <<>> THEN <<>>
  ELSE <<[id |-> k + 1, from |-> Head(s)[1], to |-> Head(s)[2]]>> \o Tag(Tail(s), k + 1)

RECURSIVE Untag(_)
Untag(s) ==
  IF s = <<>> THEN <<>>
  ELSE <<<<Head(s).from, Head(s).to>>>> \o Untag(Tail(s))

(***************************************************************************)
(* Graph.js                                                                *)
(***************************************************************************)
\* new Graph(): constructor with no opts
EmptyGraph == [nodes |-> EmptyMap, edges |-> <<>>, rootNodeId |-> Null]

\* the graph `this` as the methods see it
This == [nodes |-> nodes, edges |-> Tag(edges, 0), rootNodeId |-> rootNodeId]

addNode(g, node) == [g EXCEPT !.nodes = MapSet(g.nodes, node.id, node.value)]

hasNode(g, id) == id \in DOMAIN g.nodes

setRootNode(g, node) == [addNode(g, node) EXCEPT !.rootNodeId = node.id]

\* Set.prototype.add: an object already in the set is not added again
addEdge(g, edge) ==
  IF edge.id \in Ids(g.edges) THEN g
  ELSE [g EXCEPT !.edges = Append(g.edges, edge)]

\* Set.prototype.delete
deleteEdge(g, edge) == [g EXCEPT !.edges = SeqFilter(g.edges, {edge.id})]

hasEdge(g, edge) ==
  \E i \in 1..Len(g.edges) : edge.from = g.edges[i].from /\ edge.to = g.edges[i].to

RECURSIVE mergeNodes(_, _, _)
mergeNodes(g, m, todo) ==
  IF todo = {} THEN g
  ELSE LET id == CHOOSE x \in todo : TRUE
       IN mergeNodes(addNode(g, [id |-> id, value |-> m[id]]), m, todo \ {id})

RECURSIVE mergeEdges(_, _)
mergeEdges(g, es) ==
  IF es = <<>> THEN g ELSE mergeEdges(addEdge(g, Head(es)), Tail(es))

merge(g, graph) ==
  mergeEdges(mergeNodes(g, graph.nodes, DOMAIN graph.nodes), graph.edges)

\* isOrphanedNode without the scan of this.edges: every node counts as orphaned
isOrphanedNodeNoCheck(g, id) == TRUE

\* isOrphanedNode that finds an incoming edge for every node
isOrphanedNodeNever(g, id) == FALSE

isOrphanedNode(g, id) ==
  ~ \E i \in 1..Len(g.edges) : g.edges[i].to = id

\* the next entry a live Set iterator yields after the entry `last`:
\* entries deleted before they are reached are skipped, entries added
\* during the iteration are reached (identities grow with insertion)
HasNext(g, last) == \E i \in 1..Len(g.edges) : g.edges[i].id > last

NextEdge(g, last) ==
  g.edges[CHOOSE i \in 1..Len(g.edges) :
            /\ g.edges[i].id > last
            /\ \A j \in 1..Len(g.edges) :
                 g.edges[j].id > last => g.edges[i].id <= g.edges[j].id]

RECURSIVE removeNode(_, _)
RECURSIVE removeNodeLoop(_, _, _, _)
RECURSIVE removeEdge(_, _)

\* the loop of removeNode, with `last` the entry the iterator is at;
\* result [g: this, removed: the graph being returned]
removeNodeLoop(g, removed, node, last) ==
  IF ~HasNext(g, last) THEN [g |-> g, removed |-> removed]
  ELSE LET edge == NextEdge(g, last)
       IN IF edge.from = node.id \/ edge.to = node.id
          THEN LET r == removeEdge(g, edge)
               IN removeNodeLoop(r.g, merge(removed, r.removed), node, edge.id)
          ELSE removeNodeLoop(g, removed, node, edge.id)

\* removeNode without its loop: the node is deleted, its edges stay
removeNodeOnly(g, node) ==
  [g |-> [g EXCEPT !.nodes = MapDelete(g.nodes, node.id)],
   removed |-> addNode(EmptyGraph, node)]

removeNode(g, node) ==
  removeNodeLoop([g EXCEPT !.nodes = MapDelete(g.nodes, node.id)],
                 addNode(EmptyGraph, node), node, 0)

\* the loop over this.nodes runs its body for at most one entry: the one
\* whose key is edge.to
removeEdge(g, edge) ==
  LET g1 == deleteEdge(g, edge)
      removed == addEdge(EmptyGraph, edge)
  IN IF hasNode(g1, edge.to) /\ isOrphanedNode(g1, edge.to)
     THEN LET r == removeNode(g1, [id |-> edge.to, value |-> g1.nodes[edge.to]])
          IN [g |-> r.g, removed |-> merge(removed, r.removed)]
     ELSE [g |-> g1, removed |-> removed]

RECURSIVE removeEdgesLoop(_, _, _, _)
removeEdgesLoop(g, removed, node, last) ==
  IF ~HasNext(g, last) THEN [g |-> g, removed |-> removed]
  ELSE LET edge == NextEdge(g, last)
       IN IF edge.from = node.id
          THEN LET r == removeEdge(g, edge)
               IN removeEdgesLoop(r.g, merge(removed, r.removed), node, edge.id)
          ELSE removeEdgesLoop(g, removed, node, edge.id)

removeEdges(g, node) == removeEdgesLoop(g, EmptyGraph, node, 0)

RECURSIVE replaceNodeLoop(_, _, _, _, _)
\* the loop of replaceNode; `fresh` is the identity of the next edge
\* object the loop creates.  The entries it adds are reached by the same
\* iteration.
replaceNodeLoop(g, fromNode, toNode, last, fresh) ==
  IF ~HasNext(g, last) THEN g
  ELSE LET edge == NextEdge(g, last)
       IN IF edge.to = fromNode.id
          THEN replaceNodeLoop(
                 deleteEdge(addEdge(g, [id |-> fresh, from |-> edge.from, to |-> toNode.id]),
                            edge),
                 fromNode, toNode, edge.id, fresh + 1)
          ELSE replaceNodeLoop(g, fromNode, toNode, edge.id, fresh)

\* the graph removeNode returns is dropped
replaceNode(g, fromNode, toNode) ==
  removeNode(replaceNodeLoop(addNode(g, toNode), fromNode, toNode, 0, Len(g.edges) + 1),
             fromNode).g

\* Array.prototype.filter, on an array of edge objects
RECURSIVE SelectEdges(_, _, _)
SelectEdges(s, field, keep) ==
  IF s = <<>> THEN <<>>
  ELSE IF (IF field = "from" THEN Head(s).from = keep ELSE Head(s).to # keep)
       THEN <<Head(s)>> \o SelectEdges(Tail(s), field, keep)
       ELSE SelectEdges(Tail(s), field, keep)

\* existingNode.value = toNode.value: existingNode is the object this.nodes
\* holds; `added` holds the same object when this call added it
updateValue(st, toNode) ==
  [st EXCEPT !.g.nodes = MapSet(@, toNode.id, toNode.value),
             !.added.nodes = IF toNode.id \in DOMAIN @
                             THEN MapSet(@, toNode.id, toNode.value) ELSE @]

\* one pass of the loop over toNodes;
\* st = [g: this, added, edgesToRemove, fresh: identity of the next new edge object]
replaceStep(st, fromNode, toNode) ==
  LET st1 == IF ~hasNode(st.g, toNode.id)
             THEN [st EXCEPT !.g = addNode(@, toNode), !.added = addNode(@, toNode)]
             ELSE updateValue(st, toNode)
      st2 == [st1 EXCEPT !.edgesToRemove = SelectEdges(@, "to", toNode.id)]
      edge == [id |-> st.fresh, from |-> fromNode.id, to |-> toNode.id]
  IN IF ~hasEdge(st2.g, edge)
     THEN [st2 EXCEPT !.g = addEdge(@, edge), !.added = addEdge(@, edge),
                      !.fresh = @ + 1]
     ELSE st2

RECURSIVE replaceLoop(_, _, _)
replaceLoop(st, fromNode, toNodes) ==
  IF toNodes = <<>> THEN st
  ELSE replaceLoop(replaceStep(st, fromNode, Head(toNodes)), fromNode, Tail(toNodes))

RECURSIVE removeLoop(_, _, _)
\* the loop over the array edgesToRemove
removeLoop(g, removed, edgesToRemove) ==
  IF edgesToRemove = <<>> THEN [g |-> g, removed |-> removed]
  ELSE LET r == removeEdge(g, Head(edgesToRemove))
       IN removeLoop(r.g, merge(removed, r.removed), Tail(edgesToRemove))

\* result [g: this, removed, added]
replaceNodesConnectedTo(g, fromNode, toNodes) ==
  LET edgesBefore == SelectEdges(g.edges, "from", fromNode.id)
      st == replaceLoop([g |-> g, added |-> EmptyGraph, edgesToRemove |-> edgesBefore,
                         fresh |-> Len(g.edges) + 1],
                        fromNode, toNodes)
      r == removeLoop(st.g, EmptyGraph, st.edgesToRemove)
  IN [g |-> r.g, removed |-> r.removed, added |-> st.added]


(***************************************************************************)
(* Traversal.  A node object is a record [id, obj]: the object this.nodes  *)
(* holds under an id is [id, "graph"], a node object of the caller with    *)
(* that id is [id, "caller"].  new Set<Node>() goes by object identity.    *)
(***************************************************************************)
Undefined == "undefined"

\* what this.nodes.get gives for an id that is not a key
UndefinedNode == [id |-> Undefined, obj |-> Undefined]

NullNode == [id |-> Null, obj |-> Null]

getNode(g, id) ==
  IF id \in DOMAIN g.nodes THEN [id |-> id, obj |-> "graph"] ELSE UndefinedNode

getRootNode(g) == IF g.rootNodeId # Null THEN getNode(g, g.rootNodeId) ELSE NullNode

RECURSIVE ConnectedFrom(_, _, _)
\* Array.from(this.edges).filter(edge => edge.from === id).map(edge => this.nodes.get(edge.to))
ConnectedFrom(g, es, id) ==
  IF es = <<>> THEN <<>>
  ELSE IF Head(es).from = id
       THEN <<getNode(g, Head(es).to)>> \o ConnectedFrom(g, Tail(es), id)
       ELSE ConnectedFrom(g, Tail(es), id)

getNodesConnectedFrom(g, node) == ConnectedFrom(g, g.edges, node.id)

\* The callback `visit` of a caller of traverse: it returns the id of the
\* node at the nodes of visit.ret and undefined at the others, calls
\* skipChildren() at the nodes of visit.skip and stop() at those of visit.stop.
visitNode(visit, node) ==
  [ret |-> IF node.id \in visit.ret THEN node.id ELSE Undefined,
   skip |-> node.id \in visit.skip,
   stop |-> node.id \in visit.stop]

RECURSIVE walk(_, _, _, _, _)
RECURSIVE walkChildren(_, _, _, _, _)

\* walk of dfs, getChildren being getNodesConnectedFrom;
\* st = [visited, log: the nodes visit was called with, in order, stopped,
\*       threw: a TypeError left the walk, result: what walk returned]
walk(g, visit, st, node, context) ==
  LET v == visitNode(visit, node)
      st1 == [st EXCEPT !.visited = @ \cup {node}, !.log = Append(@, node),
                        !.stopped = @ \/ v.stop]
      newContext == IF v.ret # Undefined THEN v.ret ELSE context
  IN IF v.skip THEN [st1 EXCEPT !.result = Undefined]
     ELSE IF st1.stopped THEN [st1 EXCEPT !.result = newContext]
     ELSE IF node = UndefinedNode THEN [st1 EXCEPT !.threw = TRUE]
     ELSE walkChildren(g, visit, st1, getNodesConnectedFrom(g, node), newContext)

\* the loop of walk over the children
walkChildren(g, visit, st, children, context) ==
  IF children = <<>> THEN [st EXCEPT !.result = Undefined]
  ELSE LET child == Head(children)
       IN IF child \in st.visited
          THEN walkChildren(g, visit, st, Tail(children), context)
          ELSE LET r == walk(g, visit, [st EXCEPT !.visited = @ \cup {child}], child,
                             context)
               IN IF r.threw \/ r.stopped THEN r
                  ELSE walkChildren(g, visit, r, Tail(children), context)

NoWalk == [visited |-> {}, log |-> <<>>, stopped |-> FALSE, threw |-> FALSE,
           result |-> Null]

\* traverse(visit, startNode); startNode = NullNode when the caller gives none
traverse(g, visit, startNode) ==
  LET root == IF startNode # NullNode THEN startNode ELSE getRootNode(g)
  IN IF root = NullNode \/ root = UndefinedNode THEN NoWalk
     ELSE walk(g, visit, NoWalk, root, Undefined)

RECURSIVE pushChildren(_, _)
\* the loop of bfs over the children of a node; q = [visited, queue]
pushChildren(q, children) ==
  IF children = <<>> THEN q
  ELSE IF Head(children) \in q.visited THEN pushChildren(q, Tail(children))
       ELSE pushChildren([visited |-> q.visited \cup {Head(children)},
                          queue |-> Append(q.queue, Head(children))],
                         Tail(children))

RECURSIVE bfsLoop(_, _, _, _)
\* the while loop of bfs; `visit` returns true at the nodes whose id is in
\* stopAt; st as in walk, result being the node bfs returns
bfsLoop(g, stopAt, st, queue) ==
  IF queue = <<>> THEN [st EXCEPT !.result = NullNode]
  ELSE LET node == Head(queue)
           st1 == [st EXCEPT !.log = Append(@, node)]
       IN IF node.id \in stopAt THEN [st1 EXCEPT !.stopped = TRUE, !.result = node]
          ELSE IF node = UndefinedNode THEN [st1 EXCEPT !.threw = TRUE]
          ELSE LET q == pushChildren([visited |-> st1.visited, queue |-> Tail(queue)],
                                     getNodesConnectedFrom(g, node))
               IN bfsLoop(g, stopAt, [st1 EXCEPT !.visited = q.visited], q.queue)

bfs(g, stopAt) ==
  LET root == getRootNode(g)
  IN IF root = NullNode \/ root = UndefinedNode THEN [NoWalk EXCEPT !.result = NullNode]
     ELSE bfsLoop(g, stopAt, [NoWalk EXCEPT !.visited = {root}], <<root>>)

(***************************************************************************)
(* serialize and the constructor                                           *)
(***************************************************************************)
RECURSIVE Entries(_, _)
\* [...this.nodes]: the array of the [id, node] entries of the Map
Entries(m, todo) ==
  IF todo = {} THEN <<>>
  ELSE LET id == CHOOSE x \in todo : TRUE
       IN <<[id |-> id, value |-> m[id]]>> \o Entries(m, todo \ {id})

serialize(g) ==
  [nodes |-> Entries(g.nodes, DOMAIN g.nodes), edges |-> g.edges,
   rootNodeId |-> g.rootNodeId]

\* a value that || takes for false: null, undefined, the empty string
Falsy(x) == x \in {Null, Undefined, ""}

RECURSIVE NewMap(_, _)
\* new Map(entries), onto the map m
NewMap(m, entries) ==
  IF entries = <<>> THEN m
  ELSE NewMap(MapSet(m, Head(entries).id, Head(entries).value), Tail(entries))

\* new Graph(opts)
Graph(opts) ==
  mergeEdges([nodes |-> NewMap(EmptyMap, opts.nodes), edges |-> <<>>,
              rootNodeId |-> IF Falsy(opts.rootNodeId) THEN Null ELSE opts.rootNodeId],
             opts.edges)

(***************************************************************************)
(* assetUtils.js: invalidations.  A string is the sequence of its          *)
(* character codes, + is \o and < is the order of the codes.               *)
(***************************************************************************)
\* 'file:'
FilePrefix == <<102, 105, 108, 101, 58>>

\* 'env:'
EnvPrefix == <<101, 110, 118, 58>>

\* ':'
Colon == <<58>>

EmptyString == <<>>

RECURSIVE StringLess(_, _)
\* a < b on strings
StringLess(a, b) ==
  IF b = <<>> THEN FALSE
  ELSE IF a = <<>> THEN TRUE
  ELSE IF Head(a) # Head(b) THEN Head(a) < Head(b)
  ELSE StringLess(Tail(a), Tail(b))

\* a digest: equal on equal inputs, different on different ones
md5(data) == [kind |-> "md5", data |-> data]

Thrown == [threw |-> TRUE, value |-> EmptyString]

Value(v) == [threw |-> FALSE, value |-> v]

getInvalidationId(invalidation) ==
  IF invalidation.type = "file" THEN Value(FilePrefix \o invalidation.filePath)
  ELSE IF invalidation.type = "env" THEN Value(EnvPrefix \o invalidation.key)
  ELSE Thrown

\* the arrays with the elements of the array s, in every order
Orders(s) == {[i \in 1..Len(s) |-> s[f[i]]] : f \in Permutations(1..Len(s))}

\* (a, b) => (getInvalidationId(a) < getInvalidationId(b) ? -1 : 1), on
\* invalidations of a known type
Before(a, b) == StringLess(getInvalidationId(a).value, getInvalidationId(b).value)

\* invalidations.slice() with no sort
unsorted(invalidations) == {Value(invalidations)}

\* What invalidations.slice().sort(comparator) can give.  The comparator
\* is called when the array has two elements or more, and then with every
\* element, so that an element of an unknown type makes the sort throw.  It
\* answers 1 both ways round for two elements with the same id, and how
\* these end up is left to the engine: every order in which no element
\* comes after an element it is Before.
sorted(invalidations) ==
  IF Len(invalidations) < 2 THEN {Value(invalidations)}
  ELSE IF \E i \in 1..Len(invalidations) : getInvalidationId(invalidations[i]).threw
       THEN {Thrown}
       ELSE {Value(s) : s \in {o \in Orders(invalidations) :
                                 \A i, j \in 1..Len(o) : i < j => ~Before(o[j], o[i])}}

RECURSIVE updates(_, _, _)
\* the loop of getInvalidationHash: the arguments of hash.update, in order;
\* files[filePath] is the content of the file, env is options.env
updates(sortedInvalidations, files, env) ==
  IF sortedInvalidations = <<>> THEN <<>>
  ELSE LET invalidation == Head(sortedInvalidations)
           rest == updates(Tail(sortedInvalidations), files, env)
       IN IF invalidation.type = "file"
          THEN <<md5(files[invalidation.filePath])>> \o rest
          ELSE IF invalidation.type = "env"
          THEN <<[kind |-> "string",
                  data |-> invalidation.key \o Colon \o
                           (IF invalidation.key \in DOMAIN env THEN env[invalidation.key]
                            ELSE EmptyString)]>> \o rest
          ELSE rest

\* the results getInvalidationHash can have: [threw, updates, hash]
getInvalidationHash(invalidations, files, env) ==
  {IF s.threw THEN [threw |-> TRUE, updates |-> <<>>, hash |-> md5(<<>>)]
   ELSE LET u == updates(s.value, files, env)
        IN [threw |-> FALSE, updates |-> u, hash |-> md5(u)] :
   s \in sorted(invalidations)}

(***************************************************************************)
(* assetUtils.js: createAsset                                              *)
(***************************************************************************)
\* a string option that is null or undefined (no character has this code)
NoString == <<-1>>

\* x == null
IsNull(x) == x = NoString

\* idBase taken from filePath whatever options.idBase is
idBaseFilePath(options) == options.filePath

\* let idBase = options.idBase != null ? options.idBase : options.filePath
idBase(options) == IF ~IsNull(options.idBase) THEN options.idBase ELSE options.filePath

\* options.uniqueKey || ''
uniqueKey(options) ==
  IF IsNull(options.uniqueKey) \/ options.uniqueKey = EmptyString THEN EmptyString
  ELSE options.uniqueKey

\* options.pipeline ?? ''
pipeline(options) == IF IsNull(options.pipeline) THEN EmptyString ELSE options.pipeline

\* an environment is modelled by the string getEnvironmentHash gives for it
getEnvironmentHash(env) == env

\* the fields of the asset that depend on the options of the model
createAsset(options) ==
  [id |-> IF ~IsNull(options.id) THEN options.id
          ELSE md5(idBase(options) \o options.type \o getEnvironmentHash(options.env) \o
                   uniqueKey(options) \o pipeline(options)),
   committed |-> IF options.committed = Undefined THEN "false" ELSE options.committed,
   filePath |-> options.filePath,
   type |-> options.type,
   pipeline |-> options.pipeline,
   env |-> options.env,
   uniqueKey |-> uniqueKey(options)]

(***************************************************************************)
(* assetUtils.js: generateFromAST.  An asset is a record [name, value]:    *)
(* the CommittedAsset or UncommittedAsset object and the Asset object that *)
(* is its .value.  A promise is a record [asset, value, state, generated,  *)
(* cached]: state is the call _generateFromAST is waiting for, or how the  *)
(* promise has settled; generated and cached say whether plugin.generate   *)
(* and the cache writes have been started.                                 *)
(***************************************************************************)
\* _generateFromAST(asset), up to its first await: asset.getAST() is called
\* and the promise of the async function is returned
generateFromASTStart(asset) ==
  [asset |-> asset.name, value |-> asset.value, state |-> "getAST",
   generated |-> FALSE, cached |-> FALSE]

\* generateFromAST without generateResults.set
generateFromASTNoSet(results, ps, asset) ==
  IF asset.value \in DOMAIN results
  THEN [generateResults |-> results, promises |-> ps, output |-> results[asset.value]]
  ELSE [generateResults |-> results,
        promises |-> Append(ps, generateFromASTStart(asset)),
        output |-> Len(ps) + 1]

\* generateFromAST(asset), on the WeakMap results and the promises ps:
\* [generateResults, promises, output]
generateFromAST(results, ps, asset) ==
  IF asset.value \in DOMAIN results
  THEN [generateResults |-> results, promises |-> ps, output |-> results[asset.value]]
  ELSE LET output == Len(ps) + 1
       IN [generateResults |-> MapSet(results, asset.value, output),
           promises |-> Append(ps, generateFromASTStart(asset)),
           output |-> output]

\* _generateFromAST after `await asset.getAST()` has settled with `outcome`
afterGetAST(promise, outcome) ==
  IF outcome = "ast" THEN [promise EXCEPT !.state = "loadPlugin"]
  ELSE [promise EXCEPT !.state = "rejected"]

\* _generateFromAST after `await loadPlugin(...)` has settled
afterLoadPlugin(promise, outcome) ==
  IF outcome = "plugin" THEN [promise EXCEPT !.state = "generate", !.generated = TRUE]
  ELSE [promise EXCEPT !.state = "rejected"]

\* _generateFromAST after `await plugin.generate(...)` has settled
afterGenerate(promise, outcome) ==
  IF outcome = "output" THEN [promise EXCEPT !.state = "cache", !.cached = TRUE]
  ELSE [promise EXCEPT !.state = "rejected"]

\* _generateFromAST after `await Promise.all([...])` has settled
afterCache(promise, outcome) ==
  IF outcome = "stored" THEN [promise EXCEPT !.state = "fulfilled"]
  ELSE [promise EXCEPT !.state = "rejected"]

(***************************************************************************)
(* Calls.  `call` is what the caller holds when a call has returned: the   *)
(* method, its arguments, the graph it was called on and what it returned. *)
(***************************************************************************)
NoNode == [id |-> Null, value |-> OldValue]

NoEdge == [id |-> 0, from |-> Null, to |-> Null]

NoCall ==
  [op |-> "none", again |-> FALSE, node |-> NoNode, edge |-> NoEdge, toNodes |-> <<>>,
   pre |-> EmptyGraph, post |-> EmptyGraph,
   removed |-> EmptyGraph, added |-> EmptyGraph]

Returned(op, node, edge, toNodes, post, removed, added) ==
  [op |-> op, again |-> FALSE, node |-> node, edge |-> edge, toNodes |-> toNodes,
   pre |-> This, post |-> post, removed |-> removed, added |-> added]

\* `this` after the call; a method of Graph does not touch assetUtils
Commit(g) ==
  /\ nodes' = g.nodes
  /\ edges' = Untag(g.edges)
  /\ rootNodeId' = g.rootNodeId
  /\ UNCHANGED <<generateResults, promises>>

Init ==
  /\ nodes = EmptyMap
  /\ edges = <<>>
  /\ rootNodeId = Null
  /\ call = NoCall
  /\ generateResults = EmptyMap
  /\ promises = <<>>

AddNode ==
  /\ call = NoCall
  /\ \E id \in NodeIds :
       /\ Commit(addNode(This, [id |-> id, value |-> OldValue]))
       /\ call' = NoCall

SetRootNode ==
  /\ call = NoCall
  /\ Commit(setRootNode(This, [id |-> "root", value |-> OldValue]))
  /\ call' = NoCall

\* addEdge with a new edge object, or with an object that is in the set
AddEdge(max) ==
  /\ call = NoCall
  /\ Len(edges) < max
  /\ \E edge \in Objs(Tag(edges, 0)) \cup
                 {[id |-> Len(edges) + 1, from |-> p[1], to |-> p[2]] : p \in EdgePairs} :
       LET g == addEdge(This, edge)
       IN /\ Commit(g)
          /\ call' = Returned("addEdge", NoNode, edge, <<>>, g, EmptyGraph, EmptyGraph)

RemoveNode ==
  /\ call = NoCall
  /\ \E id \in NodeIds :
       LET node == [id |-> id, value |-> IF id \in DOMAIN nodes THEN nodes[id] ELSE OldValue]
           r == removeNode(This, node)
       IN /\ Commit(r.g)
          /\ call' = Returned("removeNode", node, NoEdge, <<>>, r.g, r.removed, EmptyGraph)

\* the caller of a removeNode that removed a node of the graph calls
\* removeNode once more, with the same node
RemoveNodeAgain ==
  /\ call.op = "removeNode"
  /\ ~call.again
  /\ call.node.id \in DOMAIN call.pre.nodes
  /\ LET r == removeNode(This, call.node)
     IN /\ Commit(r.g)
        /\ call' = [Returned("removeNode", call.node, NoEdge, <<>>, r.g, r.removed,
                             EmptyGraph) EXCEPT !.again = TRUE]

\* removeEdge with an edge object of the set, or with an object that is not in it
RemoveEdge ==
  /\ call = NoCall
  /\ \E edge \in Objs(Tag(edges, 0)) \cup
                 {[id |-> Len(edges) + 1, from |-> p[1], to |-> p[2]] : p \in EdgePairs} :
       LET r == removeEdge(This, edge)
       IN /\ Commit(r.g)
          /\ call' = Returned("removeEdge", NoNode, edge, <<>>, r.g, r.removed, EmptyGraph)

\* merge with a graph of one node and one edge to it, the edge a new object
\* or an object this graph holds too
Merge ==
  /\ call = NoCall
  /\ Len(edges) < MaxEdges
  /\ \E e \in Objs(Tag(edges, 0)) \cup
               {[id |-> Len(edges) + 1, from |-> p[1], to |-> p[2]] : p \in EdgePairs} :
       /\ Commit(merge(This, [nodes |-> [x \in {e.to} |-> OldValue], edges |-> <<e>>,
                              rootNodeId |-> Null]))
       /\ call' = NoCall

RemoveEdges ==
  /\ call = NoCall
  /\ \E id \in NodeIds :
       LET node == [id |-> id, value |-> IF id \in DOMAIN nodes THEN nodes[id] ELSE OldValue]
           r == removeEdges(This, node)
       IN /\ Commit(r.g)
          /\ call' = Returned("removeEdges", node, NoEdge, <<>>, r.g, r.removed, EmptyGraph)

\* replaceNode with two nodes of different ids (with the same id and an
\* edge to it the loop of replaceNode does not end)
ReplaceNode ==
  /\ call = NoCall
  /\ \E fromId \in NodeIds, toId \in NodeIds :
       /\ fromId # toId
       /\ LET fromNode == [id |-> fromId,
                           value |-> IF fromId \in DOMAIN nodes THEN nodes[fromId] ELSE OldValue]
              toNode == [id |-> toId, value |-> OldValue]
              g == replaceNode(This, fromNode, toNode)
          IN /\ Commit(g)
             /\ call' = Returned("replaceNode", fromNode, NoEdge, <<toNode>>, g,
                                 EmptyGraph, EmptyGraph)

ToNodes ==
  UNION {[1..n -> {[id |-> id, value |-> NewValue] : id \in ToIdSet}] : n \in 0..MaxToNodes}

\* replaceNodesConnectedTo, as long as the edge set it leaves holds at most
\* MaxEdges edges
ReplaceNodesConnectedTo ==
  /\ call = NoCall
  /\ \E fromId \in FromIds, toNodes \in ToNodes :
       LET fromNode == [id |-> fromId,
                        value |-> IF fromId \in DOMAIN nodes THEN nodes[fromId] ELSE OldValue]
           r == replaceNodesConnectedTo(This, fromNode, toNodes)
       IN /\ Len(r.g.edges) <= MaxEdges
          /\ Commit(r.g)
          /\ call' = Returned("replaceNodesConnectedTo", fromNode, NoEdge, toNodes, r.g,
                              r.removed, r.added)


\* the caller is done with what the call returned and goes on
Continue ==
  /\ call # NoCall
  /\ call' = NoCall
  /\ UNCHANGED <<nodes, edges, rootNodeId, generateResults, promises>>

Next ==
  \/ AddNode
  \/ SetRootNode
  \/ AddEdge(MaxEdges)
  \/ RemoveNode
  \/ RemoveNodeAgain
  \/ RemoveEdge
  \/ Merge
  \/ RemoveEdges
  \/ ReplaceNode
  \/ ReplaceNodesConnectedTo
  \/ Continue

Spec == Init /\ [][Next]_vars

\* callers that build a graph and then only remove from it
NextRemove ==
  \/ AddNode
  \/ SetRootNode
  \/ AddEdge(MaxEdgesRemove)
  \/ RemoveNode
  \/ RemoveNodeAgain
  \/ RemoveEdge
  \/ RemoveEdges
  \/ Continue

SpecRemove == Init /\ [][NextRemove]_vars

(***************************************************************************)
(* Callers that build a graph and traverse it                              *)
(***************************************************************************)
\* largest edge set a caller adds to before it traverses the graph
MaxEdgesTraverse == 3

\* the node objects a caller hands to traverse as startNode: none, the
\* object the graph holds under an id, or an object of its own with an id
StartNodes ==
  {NullNode} \cup {getNode(This, id) : id \in DOMAIN nodes}
             \cup {[id |-> id, obj |-> "caller"] : id \in NodeIds}

\* a visit that calls neither skipChildren nor stop and returns nothing
PlainVisit == [ret |-> {}, skip |-> {}, stop |-> {}]

\* the node sets at which the callbacks of the callers return a value, call
\* skipChildren(), call stop()
RetSets == {{}, {"root"}, {"a"}, NodeIds}

SkipSets == {{}, {"a"}, {"b"}}

StopSets == {{"root"}, {"a"}, {"b"}}

\* the node sets at which the callback handed to bfs returns true
BfsStopSets == {{}, {"root"}, {"a"}, {"b"}, {"c"}, {"a", "b"}}

Traversed(op, node, visit, r) ==
  [op |-> op, again |-> FALSE, node |-> NoNode, edge |-> NoEdge, toNodes |-> <<>>,
   pre |-> This, post |-> This, removed |-> EmptyGraph, added |-> EmptyGraph,
   startNode |-> node, visit |-> visit, walk |-> r]

\* traverse with a visit that uses no control
Traverse ==
  /\ call = NoCall
  /\ \E startNode \in StartNodes :
       call' = Traversed("traverse", startNode, PlainVisit,
                         traverse(This, PlainVisit, startNode))
  /\ UNCHANGED <<nodes, edges, rootNodeId, generateResults, promises>>

\* traverse from a node of the graph, or from the root, with a visit that
\* calls stop() at a node
TraverseStop ==
  /\ call = NoCall
  /\ \E startNode \in {NullNode} \cup {getNode(This, id) : id \in DOMAIN nodes},
        ret \in RetSets, skip \in SkipSets, stop \in StopSets :
       LET visit == [ret |-> ret, skip |-> skip, stop |-> stop]
       IN call' = Traversed("traverse", startNode, visit, traverse(This, visit, startNode))
  /\ UNCHANGED <<nodes, edges, rootNodeId, generateResults, promises>>

Bfs ==
  /\ call = NoCall
  /\ \E stopAt \in BfsStopSets :
       call' = Traversed("bfs", NullNode, [ret |-> stopAt, skip |-> {}, stop |-> {}],
                         bfs(This, stopAt))
  /\ UNCHANGED <<nodes, edges, rootNodeId, generateResults, promises>>

NextTraverse ==
  \/ AddNode
  \/ SetRootNode
  \/ AddEdge(MaxEdgesTraverse)
  \/ Traverse
  \/ TraverseStop
  \/ Bfs
  \/ Continue

SpecTraverse == Init /\ [][NextTraverse]_vars

(***************************************************************************)
(* Callers that build a graph, serialize it and construct a graph from     *)
(* what serialize returned                                                 *)
(***************************************************************************)
\* the ids of the node objects handed to setRootNode, besides "root"
RootIds == {"a", ""}

SetRootNodeTo ==
  /\ call = NoCall
  /\ \E id \in RootIds : Commit(setRootNode(This, [id |-> id, value |-> OldValue]))
  /\ call' = NoCall

\* opts = this.serialize(); copy = new Graph(opts)
Serialize ==
  /\ call = NoCall
  /\ LET opts == serialize(This)
     IN call' = [op |-> "serialize", again |-> FALSE, node |-> NoNode, edge |-> NoEdge,
                 toNodes |-> <<>>, pre |-> This, post |-> This,
                 removed |-> EmptyGraph, added |-> EmptyGraph,
                 opts |-> opts, copy |-> Graph(opts)]
  /\ UNCHANGED <<nodes, edges, rootNodeId, generateResults, promises>>

NextSerialize ==
  \/ AddNode
  \/ SetRootNode
  \/ SetRootNodeTo
  \/ AddEdge(MaxEdges)
  \/ RemoveNode
  \/ RemoveEdge
  \/ Serialize
  \/ Continue

SpecSerialize == Init /\ [][NextSerialize]_vars

(***************************************************************************)
(* Callers of getInvalidationId and getInvalidationHash                    *)
(***************************************************************************)
\* longest array of invalidations handed to getInvalidationHash
MaxInvalidations == 3

\* 'a', 'ab', 'b'
Names == {<<97>>, <<97, 98>>, <<98>>}

\* the invalidations callers make: of a file, of an environment variable,
\* and of a type this module does not know
Invalidations ==
  {[type |-> "file", filePath |-> n, key |-> Undefined] : n \in Names} \cup
  {[type |-> "env", filePath |-> Undefined, key |-> n] : n \in {<<97>>, <<98>>}} \cup
  {[type |-> "glob", filePath |-> Undefined, key |-> Undefined]}

\* the content of the files
Files == [n \in Names |-> IF n = <<98>> THEN <<120>> ELSE n]

\* options.env: with a value for 'a' and none for 'b', or with none
Envs == {[n \in {<<97>>} |-> <<120>>], [n \in {} |-> <<120>>]}

InitHash ==
  /\ nodes = EmptyMap
  /\ edges = <<>>
  /\ rootNodeId = Null
  /\ generateResults = EmptyMap
  /\ promises = <<>>
  /\ \E n \in 0..MaxInvalidations, env \in Envs :
       \E invalidations \in [1..n -> Invalidations] :
         call = [op |-> "invalidations", invalidations |-> invalidations, env |-> env]

\* getInvalidationId with each invalidation of the array
GetInvalidationId ==
  /\ call.op = "invalidations"
  /\ call.invalidations # <<>>
  /\ call' = [op |-> "getInvalidationId", invalidations |-> call.invalidations,
              env |-> call.env,
              ids |-> [i \in 1..Len(call.invalidations) |->
                         getInvalidationId(call.invalidations[i])]]
  /\ UNCHANGED <<nodes, edges, rootNodeId, generateResults, promises>>

\* getInvalidationHash with the array, and with the same invalidations in
\* another order, files and environment being the same
GetInvalidationHash ==
  /\ call.op = "invalidations"
  /\ \E other \in Orders(call.invalidations) :
       \E first \in getInvalidationHash(call.invalidations, Files, call.env),
          second \in getInvalidationHash(other, Files, call.env) :
         call' = [op |-> "getInvalidationHash", invalidations |-> call.invalidations,
                  env |-> call.env, other |-> other, first |-> first, second |-> second]
  /\ UNCHANGED <<nodes, edges, rootNodeId, generateResults, promises>>

NextHash ==
  \/ GetInvalidationId
  \/ GetInvalidationHash

SpecHash == InitHash /\ [][NextHash]_vars

(***************************************************************************)
(* Callers of createAsset                                                  *)
(***************************************************************************)
\* the option sets callers hand to createAsset: 'i' or no id, 'a' or no
\* idBase, filePath 'a' or 'b', type 'c' or 'j', environment hash '1',
\* uniqueKey 'k', '' or none, pipeline 'p', '' or none, committed or not said
AssetOptions ==
  [id : {NoString, <<105>>},
   idBase : {NoString, <<97>>},
   filePath : {<<97>>, <<98>>},
   type : {<<99>>, <<106>>},
   env : {<<49>>},
   uniqueKey : {NoString, EmptyString, <<107>>},
   pipeline : {NoString, EmptyString, <<112>>},
   committed : {Undefined, "true"}]

InitAsset ==
  /\ nodes = EmptyMap
  /\ edges = <<>>
  /\ rootNodeId = Null
  /\ generateResults = EmptyMap
  /\ promises = <<>>
  /\ \E options \in AssetOptions, others \in AssetOptions :
       call = [op |-> "options", options |-> options, others |-> others]

\* createAsset with each of two option sets
CreateAsset ==
  /\ call.op = "options"
  /\ call' = [op |-> "createAsset", options |-> call.options, others |-> call.others,
              asset |-> createAsset(call.options),
              otherAsset |-> createAsset(call.others)]
  /\ UNCHANGED <<nodes, edges, rootNodeId, generateResults, promises>>

NextAsset == CreateAsset

SpecAsset == InitAsset /\ [][NextAsset]_vars

(***************************************************************************)
(* Callers of generateFromAST, and the event loop                          *)
(***************************************************************************)
\* most promises _generateFromAST is let return
MaxPromises == 3

\* two assets with the same value and an asset with another value
Assets ==
  {[name |-> "asset1", value |-> "value1"], [name |-> "asset2", value |-> "value1"],
   [name |-> "asset3", value |-> "value2"]}

GenerateFromAST ==
  /\ call = NoCall
  /\ \E asset \in Assets :
       LET r == generateFromAST(generateResults, promises, asset)
       IN /\ Len(r.promises) <= MaxPromises
          /\ generateResults' = r.generateResults
          /\ promises' = r.promises
          /\ call' = [op |-> "generateFromAST", asset |-> asset, output |-> r.output]
  /\ UNCHANGED <<nodes, edges, rootNodeId>>

\* asset.getAST() settles: with an AST, with null, or rejected; with an AST
\* the plugin is looked up (nullthrows can throw) and loadPlugin is called
GetASTSettles ==
  /\ \E i \in 1..Len(promises), outcome \in {"ast", "null", "rejected", "nullthrows"} :
       /\ promises[i].state = "getAST"
       /\ promises' = [promises EXCEPT ![i] = afterGetAST(@, outcome)]
  /\ UNCHANGED <<nodes, edges, rootNodeId, call, generateResults>>

\* loadPlugin settles: with a plugin that has generate, with one that has
\* not, or rejected; with the first plugin.generate is called
LoadPluginSettles ==
  /\ \E i \in 1..Len(promises), outcome \in {"plugin", "no generate", "rejected"} :
       /\ promises[i].state = "loadPlugin"
       /\ promises' = [promises EXCEPT ![i] = afterLoadPlugin(@, outcome)]
  /\ UNCHANGED <<nodes, edges, rootNodeId, call, generateResults>>

\* plugin.generate settles; with an output the cache writes are started
GenerateSettles ==
  /\ \E i \in 1..Len(promises), outcome \in {"output", "rejected"} :
       /\ promises[i].state = "generate"
       /\ promises' = [promises EXCEPT ![i] = afterGenerate(@, outcome)]
  /\ UNCHANGED <<nodes, edges, rootNodeId, call, generateResults>>

\* the cache writes settle
CacheSettles ==
  /\ \E i \in 1..Len(promises), outcome \in {"stored", "rejected"} :
       /\ promises[i].state = "cache"
       /\ promises' = [promises EXCEPT ![i] = afterCache(@, outcome)]
  /\ UNCHANGED <<nodes, edges, rootNodeId, call, generateResults>>

NextGenerate ==
  \/ GenerateFromAST
  \/ GetASTSettles
  \/ LoadPluginSettles
  \/ GenerateSettles
  \/ CacheSettles
  \/ Continue

SpecGenerate == Init /\ [][NextGenerate]_vars

(***************************************************************************)
(* Properties                                                              *)
(***************************************************************************)
NodeIdsOf(g) == DOMAIN g.nodes

\* the edge objects of g that end at the node id
Incoming(g, id) == {e \in Objs(g.edges) : e.to = id}

Restrict(m, S) == [x \in S |-> m[x]]

RECURSIVE Cascade(_, _)
\* The least set of node ids that holds R and every node of g whose incoming
\* edges all start at a node of the set (and that has such an edge): the
\* nodes that go when the nodes of R go.
Cascade(g, R) ==
  LET more == {m \in NodeIdsOf(g) \ R :
                 /\ Incoming(g, m) # {}
                 /\ \A e \in Incoming(g, m) : e.from \in R}
  IN IF more = {} THEN R ELSE Cascade(g, R \cup more)

\* the edge objects of g with an end in R
Touching(g, R) == {e \in Objs(g.edges) : e.from \in R \/ e.to \in R}

\* C1: removeEdge(e), with e an edge object of the graph, deletes e; the
\* node e.to goes if and only if no edge left targets it, and then the
\* returned graph holds e and that node; when an edge left targets e.to the
\* graph loses nothing but e and the returned graph holds e and nothing else.
C1_RemoveEdgePrunesOrphan ==
  (call.op = "removeEdge" /\ call.edge \in Objs(call.pre.edges)) =>
    LET e == call.edge
        left == Objs(call.pre.edges) \ {e}
        targeted == \E x \in left : x.to = e.to
        gone == e.to \in NodeIdsOf(call.pre) /\ e.to \notin NodeIdsOf(call.post)
    IN /\ e \notin Objs(call.post.edges)
       /\ e \in Objs(call.removed.edges)
       /\ e.to \in NodeIdsOf(call.pre) => (gone <=> ~targeted)
       /\ e.to \in NodeIdsOf(call.removed) <=> gone
       /\ targeted =>
            /\ call.post.nodes = call.pre.nodes
            /\ Objs(call.post.edges) = left
            /\ NodeIdsOf(call.removed) = {}
            /\ Objs(call.removed.edges) = {e}
       /\ nodes = call.post.nodes
       /\ edges = Untag(call.post.edges)

\* root -> a -> b: removeEdge(a -> b) has removed b and returned the edge and b
C1_Witness ==
  /\ call.op = "removeEdge"
  /\ NodeIdsOf(call.pre) = {"root", "a", "b"}
  /\ Untag(call.pre.edges) = << <<"root", "a">>, <<"a", "b">> >>
  /\ <<call.edge.from, call.edge.to>> = <<"a", "b">>
  /\ call.edge \in Objs(call.pre.edges)
  /\ NodeIdsOf(call.removed) = {"b"}
  /\ Pairs(call.removed.edges) = {<<"a", "b">>}
  /\ DOMAIN nodes = {"root", "a"}
  /\ edges = << <<"root", "a">> >>

\* C2: removeNode(n), with n in the graph, deletes n, the edges with n as an
\* end, and every node left with no incoming edge, with its edges, and so
\* on; the returned graph holds exactly the nodes and the edge objects that
\* were in the graph before the call and are not in it after.
C2_RemoveNodeCascades ==
  (call.op = "removeNode" /\ call.node.id \in NodeIdsOf(call.pre)) =>
    LET R == Cascade(call.pre, {call.node.id})
        goneEdges == Touching(call.pre, R)
    IN /\ call.node.id \notin NodeIdsOf(call.post)
       /\ call.post.nodes = Restrict(call.pre.nodes, NodeIdsOf(call.pre) \ R)
       /\ Objs(call.post.edges) = Objs(call.pre.edges) \ goneEdges
       /\ \A m \in NodeIdsOf(call.post) :
            Incoming(call.pre, m) # {} => Incoming(call.post, m) # {}
       /\ NodeIdsOf(call.removed) = NodeIdsOf(call.pre) \ NodeIdsOf(call.post)
       /\ Objs(call.removed.edges) = Objs(call.pre.edges) \ Objs(call.post.edges)
       /\ nodes = call.post.nodes
       /\ edges = Untag(call.post.edges)

\* root -> a -> b -> c: removeNode(a) leaves root alone and returns a, b, c
\* and the three edges
C2_Witness ==
  /\ call.op = "removeNode"
  /\ call.node.id = "a"
  /\ NodeIdsOf(call.pre) = {"root", "a", "b", "c"}
  /\ Untag(call.pre.edges) = << <<"root", "a">>, <<"a", "b">>, <<"b", "c">> >>
  /\ DOMAIN nodes = {"root"}
  /\ edges = <<>>
  /\ NodeIdsOf(call.removed) = {"a", "b", "c"}
  /\ {<<"a", "b">>, <<"b", "c">>} \subseteq Pairs(call.removed.edges)

\* C6: a second removeNode on a node that a removeNode call has just removed
\* leaves the graph as it is and returns a graph with no node and no edge.
C6_SecondRemoveNodeEmpty ==
  (call.op = "removeNode" /\ call.again) =>
    /\ call.post = call.pre
    /\ NodeIdsOf(call.removed) = {}
    /\ call.removed.edges = <<>>

\* C7: removeEdge with an edge the graph does not hold, and removeNode with
\* a node whose id the graph does not hold, leave nodes, edges and root as
\* they were.
C7_RemoveAbsentIsNoOp ==
  (\/ call.op = "removeEdge" /\ ~hasEdge(call.pre, call.edge)
   \/ call.op = "removeNode" /\ call.node.id \notin NodeIdsOf(call.pre)) =>
    call.post = call.pre

\* C10: removeEdges(node), with node in the graph, leaves node in the graph
\* and leaves it no outgoing edge.
C10_RemoveEdgesKeepsNode ==
  (call.op = "removeEdges" /\ call.node.id \in NodeIdsOf(call.pre)) =>
    /\ call.node.id \in NodeIdsOf(call.post)
    /\ \A e \in Objs(call.post.edges) : e.from # call.node.id

ToIds(toNodes) == {toNodes[i].id : i \in 1..Len(toNodes)}

\* the ids the outgoing edges of the node id end at
Targets(g, id) == {e.to : e \in {x \in Objs(g.edges) : x.from = id}}

\* C3: after replaceNodesConnectedTo(fromNode, toNodes) a node of toNodes
\* whose id was in the graph is in the graph with the new value and is in
\* neither `added` nor `removed`; a node of toNodes whose id was not in the
\* graph is in the graph and in `added`, and so is the edge (fromNode, node)
\* when the call made it.
C3_ReplaceReusesSurvivors ==
  call.op = "replaceNodesConnectedTo" =>
    \A i \in 1..Len(call.toNodes) :
      LET t == call.toNodes[i]
      IN IF t.id \in NodeIdsOf(call.pre)
         THEN /\ t.id \in NodeIdsOf(call.post)
              /\ call.post.nodes[t.id] = t.value
              /\ t.id \notin NodeIdsOf(call.added)
              /\ t.id \notin NodeIdsOf(call.removed)
         ELSE /\ t.id \in NodeIdsOf(call.post)
              /\ t.id \in NodeIdsOf(call.added)
              /\ ~hasEdge(call.pre, [from |-> call.node.id, to |-> t.id]) =>
                   <<call.node.id, t.id>> \in Pairs(call.added.edges)

\* C4: after replaceNodesConnectedTo(fromNode, toNodes), with fromNode in the
\* graph, the outgoing edges of fromNode end at exactly the ids of toNodes,
\* every node of toNodes is in the graph, and no earlier outgoing edge to
\* another node is left.
C4_SuccessorsAreToNodes ==
  (call.op = "replaceNodesConnectedTo" /\ call.node.id \in NodeIdsOf(call.pre)) =>
    /\ Targets(call.post, call.node.id) = ToIds(call.toNodes)
    /\ ToIds(call.toNodes) \subseteq NodeIdsOf(call.post)
    /\ \A e \in Objs(call.pre.edges) :
         (e.from = call.node.id /\ e.to \notin ToIds(call.toNodes)) =>
           e \notin Objs(call.post.edges)

\* C5: {added, removed} of replaceNodesConnectedTo is the delta of the call:
\* nodes after = nodes before + added - removed, the same for the (from,to)
\* pairs, and nothing is both added and removed.
C5_ExactDelta ==
  call.op = "replaceNodesConnectedTo" =>
    /\ NodeIdsOf(call.post) =
         (NodeIdsOf(call.pre) \cup NodeIdsOf(call.added)) \ NodeIdsOf(call.removed)
    /\ Pairs(call.post.edges) =
         (Pairs(call.pre.edges) \cup Pairs(call.added.edges)) \ Pairs(call.removed.edges)
    /\ NodeIdsOf(call.added) \cap NodeIdsOf(call.removed) = {}
    /\ Pairs(call.added.edges) \cap Pairs(call.removed.edges) = {}

NoDuplicateEdges(g) ==
  \A i, j \in 1..Len(g.edges) :
    (g.edges[i].from = g.edges[j].from /\ g.edges[i].to = g.edges[j].to) => i = j

\* C8: the edge collection holds at most one edge per (from,to) pair, and
\* addEdge with a pair that is present leaves the collection as it was.
C8_EdgesAreASetOfPairs ==
  /\ NoDuplicateEdges(This)
  /\ (call.op = "addEdge" /\ hasEdge(call.pre, call.edge)) =>
       call.post.edges = call.pre.edges

NoDanglingEdges(g) ==
  \A e \in Objs(g.edges) : e.from \in NodeIdsOf(g) /\ e.to \in NodeIdsOf(g)

\* C9: when no edge of the graph dangles before a call of removeNode,
\* removeEdge, removeEdges, replaceNode or replaceNodesConnectedTo (with
\* fromNode in the graph), none dangles when the call has returned.
C9_NoDanglingEdgePersists ==
  (/\ call.op \in {"removeNode", "removeEdge", "removeEdges", "replaceNode",
                   "replaceNodesConnectedTo"}
   /\ call.op = "replaceNodesConnectedTo" => call.node.id \in NodeIdsOf(call.pre)
   /\ NoDanglingEdges(call.pre)) =>
    /\ NoDanglingEdges(call.post)
    /\ NoDanglingEdges(This)

\* root <-> a, a cycle, and no dangling edge: replaceNodesConnectedTo(root, [])
\* has removed nodes and edges
C9_Witness ==
  /\ call.op = "replaceNodesConnectedTo"
  /\ call.node.id = "root"
  /\ NodeIdsOf(call.pre) = {"root", "a", "b"}
  /\ Pairs(call.pre.edges) = {<<"root", "a">>, <<"a", "root">>}
  /\ NoDanglingEdges(call.pre)
  /\ "a" \in NodeIdsOf(call.removed)
  /\ call.removed.edges # <<>>

\* C11: replaceNode(fromNode, toNode), with two different ids and fromNode in
\* the graph: when it returns toNode is in the graph, fromNode is not, no
\* edge ends at fromNode, and for every edge (p, fromNode) of the graph before
\* the call the edge (p, toNode) is in the graph.
C11_ReplaceNodeRewires ==
  (call.op = "replaceNode" /\ call.node.id \in NodeIdsOf(call.pre)) =>
    LET f == call.node.id
        t == call.toNodes[1].id
    IN /\ t \in NodeIdsOf(call.post)
       /\ f \notin NodeIdsOf(call.post)
       /\ Incoming(call.post, f) = {}
       /\ \A e \in Incoming(call.pre, f) : <<e.from, t>> \in Pairs(call.post.edges)

RECURSIVE Reach(_, _)
\* the ids reachable from the ids of S along the edges of g
Reach(g, S) ==
  LET more == {e.to : e \in {x \in Objs(g.edges) : x.from \in S}} \ S
  IN IF more = {} THEN S ELSE Reach(g, S \cup more)

\* the node the walk of a traverse call starts at
StartOf(c) == IF c.startNode # NullNode THEN c.startNode ELSE getRootNode(c.pre)

\* the number of calls of visit with a node of the id
VisitCount(log, id) == Cardinality({i \in 1..Len(log) : log[i].id = id})

\* C12: traverse(visit, startNode) with a visit that calls neither
\* skipChildren nor stop returns (no error leaves it) and has called visit
\* exactly once for each node reachable from the start node along outgoing
\* edges, and for nothing else.
C12_TraverseVisitsReachableOnce ==
  (/\ call.op = "traverse"
   /\ call.visit = PlainVisit
   /\ StartOf(call) \notin {NullNode, UndefinedNode}) =>
    LET log == call.walk.log
        reach == Reach(call.pre, {StartOf(call).id})
    IN /\ ~call.walk.threw
       /\ \A id \in reach : VisitCount(log, id) = 1
       /\ \A i \in 1..Len(log) : log[i].id \in reach

\* the calls of visit that called stop()
StopCalls(c) == {i \in 1..Len(c.walk.log) : c.walk.log[i].id \in c.visit.stop}

\* The call of visit from whose walk the k-th call was made: the latest
\* earlier call with a node that has an edge to the k-th node and did not
\* skip its children.
WalkParent(c, k) ==
  LET log == c.walk.log
      from == {j \in 1..(k - 1) :
                 /\ log[j].id \notin c.visit.skip
                 /\ \E e \in Objs(c.pre.edges) : e.from = log[j].id /\ e.to = log[k].id}
  IN CHOOSE j \in from : \A i \in from : i <= j

RECURSIVE ContextOf(_, _)
\* the context the k-th call of visit received: the value of the nearest
\* ancestor in the walk that returned one
ContextOf(c, k) ==
  IF k = 1 THEN Undefined
  ELSE LET j == WalkParent(c, k)
       IN IF c.walk.log[j].id \in c.visit.ret THEN c.walk.log[j].id ELSE ContextOf(c, j)

\* C13: once a call of visit has called stop() no further call of visit is
\* made, and traverse returns the value the stopping call returned when it
\* returned one, otherwise the context that call received.
C13_StopReturnsLastContext ==
  (call.op = "traverse" /\ StopCalls(call) # {}) =>
    LET log == call.walk.log
        k == Len(log)
    IN /\ StopCalls(call) = {k}
       /\ ~call.walk.threw
       /\ call.walk.result = IF log[k].id \in call.visit.ret THEN log[k].id
                             ELSE ContextOf(call, k)

RECURSIVE Distance(_, _, _, _)
\* the number of edges on a shortest path from an id of `layer` to id, more
\* than there are nodes when there is no path; `seen` holds the ids of the
\* layers so far
Distance(g, layer, seen, id) ==
  IF id \in layer THEN 0
  ELSE LET next == {e.to : e \in {x \in Objs(g.edges) : x.from \in layer}} \ seen
       IN IF next = {} THEN Cardinality(NodeIds) + 1
          ELSE 1 + Distance(g, next, seen \cup next, id)

\* the edge distance of the node id from the root of the graph of the call c
DistanceFromRoot(c, id) ==
  Distance(c.pre, {c.pre.rootNodeId}, {c.pre.rootNodeId}, id)

\* C14: bfs(visit) on a graph with a root node calls visit at most once per
\* node, nearer nodes first; it returns the first node at which visit
\* returns true, having called visit for no node after it; when visit
\* returns true at no node it calls visit for every node reachable from the
\* root, for nothing else, and returns no node.
C14_BfsVisitsByDistance ==
  (call.op = "bfs" /\ getRootNode(call.pre) \notin {NullNode, UndefinedNode}) =>
    LET log == call.walk.log
        reach == Reach(call.pre, {call.pre.rootNodeId})
        hits == {i \in 1..Len(log) : log[i].id \in call.visit.ret}
    IN /\ log[1] = getRootNode(call.pre)
       /\ \A i \in 1..Len(log) : log[i].id \in reach /\ VisitCount(log, log[i].id) = 1
       /\ \A i, j \in 1..Len(log) :
            i < j => DistanceFromRoot(call, log[i].id) <= DistanceFromRoot(call, log[j].id)
       /\ ~call.walk.threw
       /\ IF hits # {}
          THEN hits = {Len(log)} /\ call.walk.result = log[Len(log)]
          ELSE /\ {log[i].id : i \in 1..Len(log)} = reach
               /\ call.walk.result = NullNode

\* C15: a graph constructed from what serialize() returned has the node ids,
\* the (from,to) pairs and the root id of the graph serialize() was called
\* on, and serialize() leaves that graph as it was.
C15_SerializeRoundTrip ==
  call.op = "serialize" =>
    /\ NodeIdsOf(call.copy) = NodeIdsOf(call.pre)
    /\ Pairs(call.copy.edges) = Pairs(call.pre.edges)
    /\ call.copy.rootNodeId = call.pre.rootNodeId
    /\ This = call.pre

\* the invalidations of the array are all of a type getInvalidationId knows
KnownTypes(invalidations) ==
  \A i \in 1..Len(invalidations) : invalidations[i].type \in {"file", "env"}

\* C16: getInvalidationHash of the same invalidations in two orders, files
\* and environment unchanged, feeds the same sequence of inputs to the
\* digest and returns the same hash, two invalidations with the same id
\* included.
C16_HashIgnoresOrder ==
  (call.op = "getInvalidationHash" /\ KnownTypes(call.invalidations)) =>
    /\ ~call.first.threw /\ ~call.second.threw
    /\ call.first.updates = call.second.updates
    /\ call.first.hash = call.second.hash

\* [file ab, env a, file ab] and [file ab, file ab, env a]: two invalidations
\* with the same id, in two orders, hashed to the same three inputs
C16_Witness ==
  /\ call.op = "getInvalidationHash"
  /\ KnownTypes(call.invalidations)
  /\ Len(call.invalidations) = 3
  /\ call.other # call.invalidations
  /\ call.invalidations[1] = call.invalidations[3]
  /\ call.invalidations[1].type = "file"
  /\ call.invalidations[2].type = "env"
  /\ Len(call.first.updates) = 3
  /\ call.first.updates[1].kind = "string"
  /\ call.first.hash = call.second.hash

\* C17: getInvalidationId throws on an invalidation whose type is neither
\* 'file' nor 'env', and getInvalidationHash fails on every array that holds
\* such an invalidation, an array of length one included.
C17_UnknownTypeFails ==
  /\ call.op = "getInvalidationId" =>
       \A i \in 1..Len(call.invalidations) :
         call.invalidations[i].type \notin {"file", "env"} => call.ids[i].threw
  /\ (call.op = "getInvalidationHash" /\ ~KnownTypes(call.invalidations)) =>
       call.first.threw /\ call.second.threw

\* the five inputs: idBase, or filePath when idBase is absent; type; the
\* environment hash; uniqueKey, or '' when absent; pipeline, or '' when absent
FiveInputs(o) ==
  << IF IsNull(o.idBase) THEN o.filePath ELSE o.idBase,
     o.type,
     o.env,
     IF IsNull(o.uniqueKey) THEN EmptyString ELSE o.uniqueKey,
     IF IsNull(o.pipeline) THEN EmptyString ELSE o.pipeline >>

\* C18, as stated: two option sets that agree on the five inputs give the
\* same id, whatever their other options are.
C18_IdFromFiveInputs ==
  (call.op = "createAsset" /\ FiveInputs(call.options) = FiveInputs(call.others)) =>
    call.asset.id = call.otherAsset.id

\* C18, amended: two option sets with no id option that agree on the five
\* inputs give the same id, whatever their other options are; an option set
\* with an id option gives that id.
C18_IdFromFiveInputsOrIdOption ==
  call.op = "createAsset" =>
    /\ (/\ IsNull(call.options.id) /\ IsNull(call.others.id)
        /\ FiveInputs(call.options) = FiveInputs(call.others)) =>
         call.asset.id = call.otherAsset.id
    /\ ~IsNull(call.options.id) => call.asset.id = call.options.id
    /\ ~IsNull(call.others.id) => call.otherAsset.id = call.others.id

\* no id option; idBase 'a' with filePath 'a' and 'b', uniqueKey absent and
\* '', pipeline absent and '', committed said and not: the same id
C18_Witness ==
  /\ call.op = "createAsset"
  /\ IsNull(call.options.id) /\ IsNull(call.others.id)
  /\ ~IsNull(call.options.idBase)
  /\ call.options.filePath # call.others.filePath
  /\ call.options.uniqueKey = NoString /\ call.others.uniqueKey = EmptyString
  /\ call.options.pipeline = NoString /\ call.others.pipeline = EmptyString
  /\ call.options.committed # call.others.committed
  /\ FiveInputs(call.options) = FiveInputs(call.others)
  /\ call.asset.id = call.otherAsset.id
  /\ call.asset.id.kind = "md5"

RECURSIVE ReachIn(_, _)
\* the nodes of g reachable from the nodes of S along edges between nodes of g
ReachIn(g, S) ==
  LET more == ({e.to : e \in {x \in Objs(g.edges) : x.from \in S}} \cap NodeIdsOf(g)) \ S
  IN IF more = {} THEN S ELSE ReachIn(g, S \cup more)

\* no node of g is reachable from a node one of its edges ends at
Acyclic(g) ==
  \A e \in Objs(g.edges) : e.from \notin ReachIn(g, {e.to} \cap NodeIdsOf(g)) /\ e.from # e.to

\* g is acyclic, no edge dangles, the root is in g with no incoming edge and
\* every node is reachable from it
RootedDag(g) ==
  /\ Acyclic(g)
  /\ NoDanglingEdges(g)
  /\ g.rootNodeId \in NodeIdsOf(g)
  /\ Incoming(g, g.rootNodeId) = {}
  /\ NodeIdsOf(g) = ReachIn(g, {g.rootNodeId})

\* C19: in an acyclic graph with no dangling edge, whose root has no
\* incoming edge and reaches every node, after removeEdge(e) with an edge e
\* of the graph, or removeNode(n) with a node n of the graph that is not the
\* root, the call has returned and every node left is reachable from the root.
C19_PruningLeavesNoGarbage ==
  (/\ RootedDag(call.pre)
   /\ \/ call.op = "removeEdge" /\ call.edge \in Objs(call.pre.edges)
      \/ /\ call.op = "removeNode"
         /\ call.node.id \in NodeIdsOf(call.pre)
         /\ call.node.id # call.pre.rootNodeId) =>
    /\ call.post.rootNodeId \in NodeIdsOf(call.post)
    /\ NodeIdsOf(call.post) = ReachIn(call.post, {call.post.rootNodeId})
    /\ nodes = call.post.nodes

\* root -> a, root -> b, a -> b: removeEdge(root -> a) has removed a and the
\* edge a -> b, and b, which root still reaches, is left
C19_Witness ==
  /\ call.op = "removeEdge"
  /\ RootedDag(call.pre)
  /\ Pairs(call.pre.edges) = {<<"root", "a">>, <<"root", "b">>, <<"a", "b">>}
  /\ <<call.edge.from, call.edge.to>> = <<"root", "a">>
  /\ call.edge \in Objs(call.pre.edges)
  /\ "a" \in NodeIdsOf(call.removed)
  /\ {"root", "b"} \subseteq DOMAIN nodes
  /\ "a" \notin DOMAIN nodes
  /\ edges = << <<"root", "b">> >>

\* the promises _generateFromAST has returned for the asset value
PromisesOf(value) == {i \in 1..Len(promises) : promises[i].value = value}

\* C20: for every asset value _generateFromAST has been started at most
\* once, and so have plugin.generate and the cache writes; the promise a call
\* of generateFromAST returns is the promise of that one start, whether it
\* is pending, fulfilled or rejected.
C20_GenerateOncePerValue ==
  /\ \A asset \in Assets :
       /\ Cardinality(PromisesOf(asset.value)) <= 1
       /\ Cardinality({i \in PromisesOf(asset.value) : promises[i].generated}) <= 1
       /\ Cardinality({i \in PromisesOf(asset.value) : promises[i].cached}) <= 1
       /\ asset.value \in DOMAIN generateResults <=> PromisesOf(asset.value) # {}
  /\ call.op = "generateFromAST" =>
       /\ PromisesOf(call.asset.value) = {call.output}
       /\ generateResults[call.asset.value] = call.output

\* asset1 started the generation for value1, asset3 one for value2 that is
\* still waiting for plugin.generate; the first was rejected, and a call with
\* asset2, which shares value1, has got that rejected promise
C20_Witness ==
  /\ call.op = "generateFromAST"
  /\ call.asset.name = "asset2"
  /\ Len(promises) = 2
  /\ promises[call.output].asset = "asset1"
  /\ promises[call.output].state = "rejected"
  /\ promises[call.output].generated
  /\ promises[2].state = "generate"

====
